---- MODULE Spec2Model ----
(***************************************************************************)
(* A model of the Transkribus REST API client                              *)
(* (src/transkribus_rest_api/api.py): the session (SessionId), the request *)
(* gateway (_get/_post/_put), upload_document and download_document.       *)
(*                                                                         *)
(* One action is one top-level call of the session or one HTTP exchange    *)
(* of a multi-step operation.  The remote service is the environment: its  *)
(* responses are chosen with \E from small sets.  The clock `now` is what  *)
(* datetime.now() returns, in hours; it advances by the Tick action only,  *)
(* so every read of the clock inside one action sees the same value.       *)
(***************************************************************************)
EXTENDS Integers, Sequences, FiniteSets, TLC

VARIABLES
    now,        \* datetime.now(), in hours
    client,     \* "none": no TranskribusRestApi object; "open": constructed
    session,    \* the SessionId object: [session_id, expires]
    revoked,    \* history: a logout of this session has succeeded
    last,       \* the most recent top-level call and how it ended
    sent,       \* the HTTP requests of the most recent top-level call, in order
    up,         \* upload_document's frame: arguments, locals, position
    down,       \* download_document's frame: arguments, locals, position
    disk,       \* the target directory of download_document: name -> content
    handles,    \* the payload files the current upload_document call has
                \* opened and that are still open
    made,       \* the most recent UploadPage(...) call: arguments and outcome
    cli,        \* the upload-document command: its FILES and the pages it built
    block       \* the with-block of the transkribus_rest_api context manager

vars ==
    <<now, client, session, revoked, last, sent, up, down, disk, handles, made,
      cli, block>>

----------------------------------------------------------------------------
(* Bounds of the model. *)

\* the clock stops at MaxClock
MaxClock == 24
\* hours per Tick
TickHours == 6
\* the interpreter's recursion limit (sys.getrecursionlimit()), scaled down
RecursionLimit == 5
\* longest pages argument of upload_document
MaxPages == 3
\* longest page list of a document to download
MaxDocPages == 2
\* most FILES arguments of the upload-document command
MaxArgs == 2

----------------------------------------------------------------------------
(* Program constants and value universes. *)

\* timedelta(hours=12)
TwelveHours == 12

None == "None"

\* session ids the service may hand out
Tokens == {"s1", "s2"}

NoSession == [session_id |-> "", expires |-> 0]

\* {"Cookie": f"JSESSIONID={session_id}"}; login sends no such header
Cookie(session_id) == <<"JSESSIONID", session_id>>
NoHeaders == <<>>

\* the body of an auth response as the code reads it: whether parse_xml
\* accepts it, and the list doc.xpath("//sessionId/text()") yields; lifetime
\* stands for anything the service says about the token's lifetime
NoBody == [wellformed |-> FALSE, sessionIds |-> <<>>, lifetime |-> 0]
AuthBodies ==
    {NoBody} \cup
    [wellformed : {TRUE}, sessionIds : {<<>>} \cup {<<t>> : t \in Tokens},
     lifetime : {1, TwelveHours}]

\* the responses with a body of set bodies: ok is "the status is 2xx"
\* (raise_for_status does not raise); the body of any other is not read
Responses(bodies, none) ==
    {[ok |-> FALSE, body |-> none]} \cup [ok : {TRUE}, body : bodies]

AuthResponses == Responses(AuthBodies, NoBody)
NoResponse == [ok |-> FALSE, body |-> NoBody]

\* what the service may answer when the body is not looked into
PlainResponses == Responses({"content"}, "content")

NoData == <<>>

\* one HTTP exchange: the request as it goes out (data is its payload) and
\* the reply it gets; fresh records whether now < expires held for the
\* session when it was sent
Request(method, path, headers, data, t, s, reply) ==
    [method |-> method, path |-> path, headers |-> headers, data |-> data,
     fresh |-> t < s.expires, reply |-> reply]

\* BASE_URL/auth/...
IsAuthPath(path) == path[1] = "auth"

\* how a call ends: it returns value, or raises error; s is the session it
\* leaves behind and out the requests it sent
Returned(value, s, out) ==
    [raised |-> FALSE, error |-> "", value |-> value, s |-> s, out |-> out]
Raised(error, s, out) ==
    [raised |-> TRUE, error |-> error, value |-> None, s |-> s, out |-> out]

\* the element of a one-element set: The({e(r) : r \in {call}}) is e of the
\* call's result, with the call made once
The(S) == CHOOSE x \in S : TRUE

----------------------------------------------------------------------------
(* SessionId *)

\* the comparison as "at or past the expiry"
is_expired_ge(s, t) == t >= s.expires

\* SessionId.is_expired: datetime.now() > self.expires
is_expired(s, t) == t > s.expires

\* a missing session id read as the empty id instead of an IndexError
ReadSessionId_default(body) ==
    IF ~body.wellformed THEN [raised |-> TRUE, error |-> "XMLSyntaxError", value |-> ""]
    ELSE [raised |-> FALSE, error |-> "",
          value |-> IF Len(body.sessionIds) = 0 THEN "" ELSE body.sessionIds[1]]

\* parse_xml, then doc.xpath("//sessionId/text()")[0]
ReadSessionId(body) ==
    IF ~body.wellformed THEN [raised |-> TRUE, error |-> "XMLSyntaxError", value |-> ""]
    ELSE IF Len(body.sessionIds) = 0
         THEN [raised |-> TRUE, error |-> "IndexError", value |-> ""]
         ELSE [raised |-> FALSE, error |-> "", value |-> body.sessionIds[1]]

\* the expiry taken from what the service says
NewExpiry_server(t, body) == t + body.lifetime

\* now + timedelta(hours=12)
NewExpiry(t, body) == t + TwelveHours

\* the answers to the auth/refresh request that get_auth_header may send:
\* refresh() sends none unless is_expired(), and then none is received
RefreshAnswers(s, t) == IF is_expired(s, t) THEN AuthResponses ELSE {NoResponse}

RECURSIVE get_auth_header(_, _, _, _)
RECURSIVE refresh(_, _, _, _, _)

\* SessionId.get_auth_header: self.refresh(), then the Cookie header.
\* depth is the number of frames on the interpreter's stack.
get_auth_header(s, t, depth, resp) ==
    IF depth > RecursionLimit THEN Raised("RecursionError", s, <<>>)
    ELSE The({IF r.raised THEN r
              ELSE Returned(Cookie(r.s.session_id), r.s, r.out) :
              r \in {refresh(s, t, FALSE, depth + 1, resp)}})

\* SessionId.refresh
refresh(s, t, force, depth, resp) ==
    IF depth > RecursionLimit THEN Raised("RecursionError", s, <<>>)
    ELSE IF force \/ is_expired(s, t)
    THEN The({IF h.raised THEN h
              ELSE The({IF ~resp.ok THEN Raised("HTTPError", h.s, out)
                        ELSE The({IF id.raised THEN Raised(id.error, h.s, out)
                                  ELSE Returned(TRUE,
                                                [session_id |-> id.value,
                                                 expires |-> NewExpiry(t, resp.body)],
                                                out) :
                                  id \in {ReadSessionId(resp.body)}}) :
                        out \in {Append(h.out,
                                        Request("POST", <<"auth", "refresh">>,
                                                h.value, NoData, t, h.s, resp))}}) :
              h \in {get_auth_header(s, t, depth + 1, resp)}})
    ELSE Returned(FALSE, s, <<>>)

\* logout with the session cleared before the answer's status is looked at
logout_eager(s, t, authResp, resp) ==
    The({IF h.raised THEN h
         ELSE The({IF ~resp.ok
                   THEN Raised("HTTPError", [session_id |-> "", expires |-> t], out)
                   ELSE Returned(TRUE, [session_id |-> "", expires |-> t], out) :
                   out \in {Append(h.out,
                                   Request("POST", <<"auth", "logout">>, h.value,
                                           NoData, t, h.s, resp))}}) :
         h \in {get_auth_header(s, t, 2, authResp)}})

\* SessionId.logout; authResp answers a refresh, resp the logout
logout(s, t, authResp, resp) ==
    The({IF h.raised THEN h
         ELSE The({IF ~resp.ok THEN Raised("HTTPError", h.s, out)
                   ELSE Returned(TRUE, [session_id |-> "", expires |-> t], out) :
                   out \in {Append(h.out,
                                   Request("POST", <<"auth", "logout">>, h.value,
                                           NoData, t, h.s, resp))}}) :
         h \in {get_auth_header(s, t, 2, authResp)}})

\* SessionId.login (a classmethod: there is no session yet)
login(t, resp) ==
    The({IF ~resp.ok THEN Raised("HTTPError", NoSession, out)
         ELSE The({IF id.raised THEN Raised(id.error, NoSession, out)
                   ELSE Returned("SessionId",
                                 [session_id |-> id.value,
                                  expires |-> NewExpiry(t, resp.body)],
                                 out) :
                   id \in {ReadSessionId(resp.body)}}) :
         out \in {<<Request("POST", <<"auth", "login">>, NoHeaders, NoData, t,
                            NoSession, resp)>>}})

----------------------------------------------------------------------------
(* Request gateway *)

\* TranskribusRestApi._get/_post/_put share this body: requests.<method> with
\* headers=self.session_id.get_auth_header(), then r.raise_for_status().
\* depth is the gateway's own frame; authResp answers a refresh, resp the call.
Gateway(method, s, t, path, data, depth, authResp, resp) ==
    The({IF h.raised THEN h
         ELSE The({IF ~resp.ok THEN Raised("HTTPError", h.s, out)
                   ELSE Returned(resp.body, h.s, out) :
                   out \in {Append(h.out,
                                   Request(method, path, h.value, data, t, h.s,
                                           resp))}}) :
         h \in {get_auth_header(s, t, depth + 1, authResp)}})

_get(s, t, path, depth, authResp, resp) ==
    Gateway("GET", s, t, path, NoData, depth, authResp, resp)
_post(s, t, path, data, depth, authResp, resp) ==
    Gateway("POST", s, t, path, data, depth, authResp, resp)
_put(s, t, path, files, depth, authResp, resp) ==
    Gateway("PUT", s, t, path, files, depth, authResp, resp)


----------------------------------------------------------------------------
(* types.UploadPage *)

\* the files the caller's paths may name, with their bytes; a path outside
\* the domain names no file
FileBytes == [f \in {"a.jpg", "a.xml", "c.jpg"} |-> IF f = "a.xml" THEN "X" ELSE "A"]

\* hashlib.md5(bytes).hexdigest()
md5(bytes) ==
    IF bytes = "A" THEN "7fc56270e7a70fa81a5935b72eacbe29"
    ELSE "02129bb861061d1a052c592e2dc6b383"

\* hashlib.md5(open(file, "rb").read()).hexdigest(): value is the digest and
\* reads the files opened
HashFile(file) ==
    IF file \in DOMAIN FileBytes
    THEN [raised |-> FALSE, error |-> "", value |-> md5(FileBytes[file]),
          reads |-> {file}]
    ELSE [raised |-> TRUE, error |-> "FileNotFoundError", value |-> None,
          reads |-> {}]

Given(value) == [raised |-> FALSE, error |-> "", value |-> value, reads |-> {}]

\* the image is hashed whatever checksum the caller gave
ImageMd5_always(image, image_md5) == HashFile(image)

\* the value __init__ stores in image_md5
ImageMd5(image, image_md5) ==
    IF image_md5 = None THEN HashFile(image) ELSE Given(image_md5)

\* the value __init__ stores in page_xml_md5
PageXmlMd5(page_xml, page_xml_md5) ==
    IF page_xml_md5 = None
    THEN (IF page_xml # None THEN HashFile(page_xml) ELSE Given(None))
    ELSE Given(page_xml_md5)

NoObject == [image |-> None, page_xml |-> None, page_nr |-> 0,
             image_md5 |-> None, page_xml_md5 |-> None]

\* UploadPage.__init__: the object made, or the error raised, and the files
\* read on the way
UploadPage(image, page_xml, page_nr, image_md5, page_xml_md5) ==
    The({IF i.raised
         THEN [raised |-> TRUE, error |-> i.error, obj |-> NoObject,
               reads |-> i.reads]
         ELSE The({IF x.raised
                   THEN [raised |-> TRUE, error |-> x.error, obj |-> NoObject,
                         reads |-> i.reads \cup x.reads]
                   ELSE [raised |-> FALSE, error |-> "",
                         obj |-> [image |-> image, page_xml |-> page_xml,
                                  page_nr |-> page_nr, image_md5 |-> i.value,
                                  page_xml_md5 |-> x.value],
                         reads |-> i.reads \cup x.reads] :
                   x \in {PageXmlMd5(page_xml, page_xml_md5)}}) :
         i \in {ImageMd5(image, image_md5)}})

\* obj.field = value on a dataclass(frozen=True): FrozenInstanceError, and
\* the object is as it was
Setattr(obj, field, value) ==
    [raised |-> TRUE, error |-> "FrozenInstanceError", obj |-> obj]

\* the arguments a caller may pass
ImagePaths == {"a.jpg", "gone.jpg"}
PageXmlPaths == {None, "a.xml", "gone.xml"}
ImageChecksums == {None, "x"}
PageXmlChecksums == {None, "x", ""}
UploadPageFields == {"image", "page_xml", "page_nr", "image_md5", "page_xml_md5"}

NotMade ==
    [op |-> "none",
     args |-> NoObject, raised |-> FALSE, error |-> "", obj |-> NoObject,
     reads |-> {}, setattr |-> ""]

----------------------------------------------------------------------------
(* Uploads, Job and upload_document *)

\* UploadPage values as the caller passes them; image and page_xml are the
\* files' names
PageA ==
    [image |-> "a.jpg", page_xml |-> "a.xml", page_nr |-> 1,
     image_md5 |-> "md5(a.jpg)", page_xml_md5 |-> "md5(a.xml)"]
PageB ==
    [image |-> "b.jpg", page_xml |-> None, page_nr |-> 2,
     image_md5 |-> "md5(b.jpg)", page_xml_md5 |-> None]
UploadPages == {PageA, PageB}

\* the pages argument
PageLists == UNION {[1..n -> UploadPages] : n \in 0..MaxPages}

CollectionId == 7
Titles == {"title"}
EmptyDict == <<>>
\* the metadata argument: a dict, here a function on its keys
Metadatas == {EmptyDict, [title |-> "other"]}

\* a | b on dicts: the right operand's value wins on a shared key
DictUnion(a, b) ==
    [k \in DOMAIN a \cup DOMAIN b |-> IF k \in DOMAIN b THEN b[k] ELSE a[k]]

\* the data dict of upload_document
UploadData(title, pages, metadata) ==
    [md |-> DictUnion([title |-> title], metadata),
     pageList |->
        [pages |->
            [i \in 1..Len(pages) |->
                [fileName |-> pages[i].image,
                 pageXmlName |-> pages[i].page_xml,
                 pageNr |-> pages[i].page_nr,
                 imgChecksum |-> pages[i].image_md5,
                 pageXmlChecksum |-> pages[i].page_xml_md5]]]]

\* the answer to POST uploads: whether it parses, and the texts
\* doc.xpath("//uploadId/text()") yields
NoUpload == [wellformed |-> FALSE, uploadIds |-> <<>>]
StructureResponses ==
    Responses({NoUpload} \cup
              [wellformed : {TRUE}, uploadIds : {<<>>, <<"7">>, <<"x">>}],
              NoUpload)

\* int(text): ValueError unless the text is a number
int(text) ==
    IF text = "7" THEN [raised |-> FALSE, error |-> "", value |-> 7]
    ELSE [raised |-> TRUE, error |-> "ValueError", value |-> 0]

\* a missing upload id read as 0 instead of an IndexError
ReadUploadId_default(doc) ==
    IF Len(doc.uploadIds) = 0
    THEN [raised |-> FALSE, error |-> "", value |-> 0]
    ELSE int(doc.uploadIds[1])

\* int(doc.xpath("//uploadId/text()")[0])
ReadUploadId(doc) ==
    IF Len(doc.uploadIds) = 0
    THEN [raised |-> TRUE, error |-> "IndexError", value |-> 0]
    ELSE int(doc.uploadIds[1])

\* answers read with .json(): whether the body is JSON, and the dict it holds
NoJson == [json |-> FALSE, dict |-> EmptyDict]
StatusResponses ==
    Responses({NoJson, [json |-> TRUE, dict |-> EmptyDict],
               [json |-> TRUE, dict |-> [jobId |-> 5]]},
              NoJson)
JobResponses ==
    Responses({NoJson, [json |-> TRUE, dict |-> EmptyDict],
               [json |-> TRUE, dict |-> [docId |-> 42]],
               [json |-> TRUE, dict |-> [docId |-> 43]]},
              NoJson)

\* Response.json() of a gateway call
ReadJson(call) ==
    The({IF r.raised THEN r
         ELSE IF ~r.value.json THEN Raised("JSONDecodeError", r.s, r.out)
         ELSE Returned(r.value.dict, r.s, r.out) :
         r \in {call}})

\* call[key] for a call that returns a dict
Subscript(call, key) ==
    The({IF r.raised THEN r
         ELSE IF key \notin DOMAIN r.value THEN Raised("KeyError", r.s, r.out)
         ELSE Returned(r.value[key], r.s, r.out) :
         r \in {call}})

\* Uploads.create_upload_doc_structure: parse_xml(self.api._post(...).content)
create_upload_doc_structure(s, t, collection_id, json, depth, authResp, resp) ==
    The({IF r.raised THEN r
         ELSE IF ~r.value.wellformed THEN Raised("XMLSyntaxError", r.s, r.out)
         ELSE r :
         r \in {_post(s, t, <<"uploads">>,
                      [params |-> [collId |-> collection_id], json |-> json],
                      depth + 1, authResp, resp)}})

\* the files dict with the image alone
PageFiles_imageOnly(image, xml) == [img |-> image]

\* the files dict of upload_page: part img, and part xml if there is markup
PageFiles(image, xml) ==
    IF xml = None THEN [img |-> image] ELSE [img |-> image, xml |-> xml]

\* the files upload_page opens: open(image, "rb"), and open(xml, "rb") if
\* there is markup
PayloadHandles(image, xml) == IF xml = None THEN {image} ELSE {image, xml}

\* which of the files upload_page opened may still be open once it is left:
\* nothing closes them, so they close only when the runtime finalises the
\* file objects. When upload_page returns, its frame is dropped and the
\* runtime may have finalised them already (reference counting) or not yet
\* (a tracing collector); when it raises, the traceback holds the frame and
\* with it the files.
LeftOpen(opened, raised) == IF raised THEN {opened} ELSE {{}, opened}

\* Uploads.upload_page
upload_page(s, t, upload_id, image, xml, depth, authResp, resp) ==
    _put(s, t, <<"uploads", upload_id>>, PageFiles(image, xml), depth + 1,
         authResp, resp)

\* Uploads.get_status
get_status(s, t, upload_id, depth, authResp, resp) ==
    ReadJson(_get(s, t, <<"uploads", upload_id>>, depth + 1, authResp, resp))

\* Job.get_job_by_id
get_job_by_id(s, t, job_id, depth, authResp, resp) ==
    ReadJson(_get(s, t, <<"jobs", job_id>>, depth + 1, authResp, resp))

RECURSIVE InsertByNr(_, _)
\* p put into a list sorted by page number, after the pages of its number
InsertByNr(sorted, p) ==
    IF sorted = <<>> THEN <<p>>
    ELSE IF sorted[Len(sorted)].page_nr <= p.page_nr THEN Append(sorted, p)
    ELSE Append(InsertByNr(SubSeq(sorted, 1, Len(sorted) - 1), p),
                sorted[Len(sorted)])

RECURSIVE SortedByNr(_)
\* sorted(pages, key=lambda page: page.page_nr)
SortedByNr(pages) ==
    IF pages = <<>> THEN <<>>
    ELSE InsertByNr(SortedByNr(SubSeq(pages, 1, Len(pages) - 1)),
                    pages[Len(pages)])

\* the pages visited in the order of their page numbers
LoopOrder_sorted(pages) == SortedByNr(pages)

\* the order in which upload_document's loop visits the pages: "for page in
\* pages" is the order of the argument
LoopOrder(pages) == pages

\* upload_document up to upload_id = int(doc.xpath("//uploadId/text()")[0])
CreateUpload(s, t, title, pages, metadata, authResp, resp) ==
    The({IF doc.raised THEN doc
         ELSE The({IF id.raised THEN Raised(id.error, doc.s, doc.out)
                   ELSE Returned(id.value, doc.s, doc.out) :
                   id \in {ReadUploadId(doc.value)}}) :
         doc \in {create_upload_doc_structure(
                      s, t, CollectionId, UploadData(title, pages, metadata), 2,
                      authResp, resp)}})

----------------------------------------------------------------------------
(* Collections and download_document *)

DocumentId == 42

\* a FLocat element of the manifest: the fileGrp it is in and its attributes
FLocat(grp, href) ==
    [grp |-> grp, LOCTYPE |-> "URL", OTHERLOCTYPE |-> None, href |-> href]

\* the manifest of a document as the service sends it: an image pointer, then
\* k pointers in fileGrp PAGEXML
Mets(k) ==
    <<FLocat("IMG", "https://files/img")>> \o
    [i \in 1..k |-> FLocat("PAGEXML", "https://files/xml")]

\* an XML body: whether it parses, its tree, and how it is laid out
XmlBody(root) == [wellformed |-> TRUE, root |-> root, layout |-> "service"]
NoXml == [wellformed |-> FALSE, root |-> <<>>, layout |-> "service"]

\* the service may list more or fewer pointers than the document has pages
MetsResponses ==
    Responses({NoXml} \cup {XmlBody(Mets(k)) : k \in 0..MaxDocPages + 1}, NoXml)

\* an entry of the page list: pageNr and the fileName of each of
\* tsList.transcripts, newest first
PageEntry(nr, names) == [pageNr |-> nr, transcripts |-> names]
PageEntries ==
    {PageEntry(1, <<"p1.xml">>), PageEntry(2, <<"p2.xml", "p1.xml">>),
     PageEntry(3, <<"p1.xml">>), PageEntry(4, <<"mets.xml">>),
     PageEntry(5, <<>>)}

\* the answers to GET .../pages, read with .json()
PagesResponses ==
    Responses({NoJson} \cup
              {[json |-> TRUE, dict |-> l] :
                 l \in UNION {[1..n -> PageEntries] : n \in 0..MaxDocPages}},
              NoJson)

\* the service's transcript of page nr
TranscriptResponses(nr) == Responses({NoXml, XmlBody(<<"PcGts", nr>>)}, NoXml)

\* parse_xml of a gateway call's content
ParseXml(call) ==
    The({IF r.raised THEN r
         ELSE IF ~r.value.wellformed THEN Raised("XMLSyntaxError", r.s, r.out)
         ELSE Returned(r.value.root, r.s, r.out) :
         r \in {call}})

\* Collections.get_mets
get_mets(s, t, collection_id, document_id, depth, authResp, resp) ==
    ParseXml(_get(s, t, <<"collections", collection_id, document_id, "mets">>,
                  depth + 1, authResp, resp))

\* Collections.get_pages_from_pages_str (its params dict is not modelled)
get_pages_from_pages_str(s, t, collection_id, document_id, depth, authResp, resp) ==
    ReadJson(_get(s, t, <<"collections", collection_id, document_id, "pages">>,
                  depth + 1, authResp, resp))

\* Collections.get_transcript
get_transcript(s, t, collection_id, document_id, page_id, depth, authResp, resp) ==
    ParseXml(_get(s, t, <<"collections", collection_id, document_id, page_id, "text">>,
                  depth + 1, authResp, resp))

\* the positions of mets.xpath('//ns3:fileGrp[@ID="PAGEXML"]//ns3:FLocat'),
\* in document order
RECURSIVE PageXmlPointers(_, _)
PageXmlPointers(mets, from) ==
    IF from > Len(mets) THEN <<>>
    ELSE IF mets[from].grp = "PAGEXML"
         THEN <<from>> \o PageXmlPointers(mets, from + 1)
         ELSE PageXmlPointers(mets, from + 1)

\* the last file name of the page's transcripts
TranscriptName_last(page) ==
    IF Len(page.transcripts) = 0
    THEN [raised |-> TRUE, error |-> "IndexError", value |-> ""]
    ELSE [raised |-> FALSE, error |-> "",
          value |-> page.transcripts[Len(page.transcripts)]]

\* page["tsList"]["transcripts"][0]["fileName"]
TranscriptName(page) ==
    IF Len(page.transcripts) = 0
    THEN [raised |-> TRUE, error |-> "IndexError", value |-> ""]
    ELSE [raised |-> FALSE, error |-> "", value |-> page.transcripts[1]]

\* the loop "for i, e in enumerate(mets.xpath(...))" from its i-th turn on
\* (i counts from 1): ptrs are the positions the xpath found
RECURSIVE Rewrite(_, _, _, _)
Rewrite(mets, ptrs, pages, i) ==
    IF i > Len(ptrs) THEN [raised |-> FALSE, error |-> "", value |-> mets]
    ELSE IF i > Len(pages)
    THEN [raised |-> TRUE, error |-> "IndexError", value |-> mets]
    ELSE The({IF name.raised THEN [raised |-> TRUE, error |-> name.error, value |-> mets]
              ELSE Rewrite([mets EXCEPT ![ptrs[i]] =
                                [@ EXCEPT !.LOCTYPE = "OTHER",
                                          !.OTHERLOCTYPE = "FILE",
                                          !.href = name.value]],
                           ptrs, pages, i + 1) :
              name \in {TranscriptName(pages[i])}})

\* etree.indent, then etree.tostring(mets, xml_declaration=True, pretty_print=True)
MetsFile(mets) ==
    [root |-> mets, layout |-> "indent4", declaration |-> TRUE, standalone |-> "absent"]

\* etree.indent, then etree.tostring(doc, encoding="utf-8", xml_declaration=True,
\* pretty_print=True, standalone=True)
TranscriptFile(doc) ==
    [root |-> doc, layout |-> "indent4", declaration |-> TRUE, standalone |-> "yes"]

\* open(target / name, "wb") and f.write(content): the file is made or replaced
WriteFile(dir, name, content) ==
    [n \in DOMAIN dir \cup {name} |-> IF n = name THEN content ELSE dir[n]]

\* download_document from the page list's GET to the write of mets.xml;
\* value is the page list and dir the directory it leaves
FetchPagesAndWriteMets(s, t, mets, dir, authResp, resp) ==
    The({IF r.raised THEN [r EXCEPT !.value = <<>>] @@ [dir |-> dir]
         ELSE The({IF m.raised
                   THEN Raised(m.error, r.s, r.out) @@ [dir |-> dir]
                   ELSE Returned(r.value, r.s, r.out) @@
                        [dir |-> WriteFile(dir, "mets.xml", MetsFile(m.value))] :
                   m \in {Rewrite(mets, PageXmlPointers(mets, 1), r.value, 1)}}) :
         r \in {get_pages_from_pages_str(s, t, CollectionId, DocumentId, 2,
                                         authResp, resp)}})

\* one turn of "for page in pages": the transcript's GET and its file
FetchAndWriteTranscript(s, t, page, dir, authResp, resp) ==
    The({IF r.raised THEN r @@ [dir |-> dir]
         ELSE The({IF name.raised
                   THEN Raised(name.error, r.s, r.out) @@ [dir |-> dir]
                   ELSE Returned(None, r.s, r.out) @@
                        [dir |-> WriteFile(dir, name.value, TranscriptFile(r.value))] :
                   name \in {TranscriptName(page)}}) :
         r \in {get_transcript(s, t, CollectionId, DocumentId, page.pageNr, 2,
                               authResp, resp)}})

----------------------------------------------------------------------------
(* app.main, subcommand upload-document: from FILES to the pages *)

\* pathlib paths as the command sees them: what is at the path (a file, a
\* directory, nothing), its stem and suffix, and for a directory what
\* iterdir() yields, in the order it yields it
NonePath == [kind |-> "None", parent |-> "", stem |-> "", suffix |-> "", entries |-> <<>>]
FilePath(parent, stem, suffix) ==
    [kind |-> "file", parent |-> parent, stem |-> stem, suffix |-> suffix,
     entries |-> <<>>]
DirPath(stem, suffix, names) ==
    [kind |-> "dir", parent |-> "", stem |-> stem, suffix |-> suffix,
     entries |-> [i \in 1..Len(names) |->
                     FilePath(stem, names[i][1], names[i][2])]]
MissingPath == [kind |-> "missing", parent |-> "", stem |-> "gone", suffix |-> ".jpg",
                entries |-> <<>>]

\* [".jpg", ".jpeg", ".tif", ".tiff", ".png"]
ImageSuffixes == {".jpg", ".jpeg", ".tif", ".tiff", ".png"}

\* the orders in which iterdir() may yield the files of a directory that
\* holds some of a.jpg, a.xml, b.jpg
Listings ==
    {<<>>, <<<<"a", ".jpg">>>>, <<<<"a", ".xml">>>>, <<<<"b", ".jpg">>>>,
     <<<<"a", ".jpg">>, <<"a", ".xml">>>>, <<<<"a", ".xml">>, <<"a", ".jpg">>>>,
     <<<<"a", ".jpg">>, <<"b", ".jpg">>>>, <<<<"b", ".jpg">>, <<"a", ".jpg">>>>,
     <<<<"a", ".xml">>, <<"b", ".jpg">>>>, <<<<"b", ".jpg">>, <<"a", ".xml">>>>,
     <<<<"a", ".jpg">>, <<"a", ".xml">>, <<"b", ".jpg">>>>,
     <<<<"b", ".jpg">>, <<"a", ".xml">>, <<"a", ".jpg">>>>}

\* what a FILES argument may be: a file, a directory (one named like a
\* markup file too), or a path where nothing is
FileArgs ==
    {FilePath("", "a", ".jpg"), FilePath("", "a", ".xml"), FilePath("", "a", ".png"),
     FilePath("", "b", ".jpg"), FilePath("", "b", ".xml"), FilePath("", "c", ".txt")}
DirArgs == {DirPath(d[1], d[2], l) : d \in {<<"scans", "">>, <<"scans", ".xml">>},
                                     l \in Listings}
Args == FileArgs \cup DirArgs \cup {MissingPath}
ArgLists == UNION {[1..n -> Args] : n \in 0..MaxArgs}

\* the stems in sorted order
StemOrder == <<"a", "b", "c", "gone">>

\* if stem not in files: files[stem] = [None, None]
WithStem(files, stem) ==
    [k \in DOMAIN files \cup {stem} |->
        IF k \in DOMAIN files THEN files[k] ELSE <<NonePath, NonePath>>]

\* files[stem][slot] = path (slot counts from 1)
SetSlot(files, stem, slot, path) ==
    [files EXCEPT ![stem] = [@ EXCEPT ![slot] = path]]

\* the test of line 152: path is the directory, p its entry
IsMarkup(path, p) == path.suffix = ".xml"

\* the body of "if path.is_file():"
PutFile(files, path) ==
    The({IF path.suffix = ".xml" THEN SetSlot(f, path.stem, 2, path)
         ELSE IF path.suffix \in ImageSuffixes THEN SetSlot(f, path.stem, 1, path)
         ELSE f :
         f \in {WithStem(files, path.stem)}})

\* the body of "for p in path.iterdir():"
PutEntry(files, path, p) ==
    The({The({IF p.suffix \in ImageSuffixes THEN SetSlot(g, p.stem, 1, p) ELSE g :
              g \in {IF IsMarkup(path, p) THEN SetSlot(f, p.stem, 2, p) ELSE f}}) :
         f \in {WithStem(files, p.stem)}})

\* "for p in path.iterdir():" over the first n entries
RECURSIVE PutEntries(_, _, _)
PutEntries(files, path, n) ==
    IF n = 0 THEN files
    ELSE The({PutEntry(f, path, path.entries[n]) :
              f \in {PutEntries(files, path, n - 1)}})

\* "for path in args.FILES:" over the first n arguments
RECURSIVE CollectFiles(_, _)
CollectFiles(FILES, n) ==
    IF n = 0 THEN <<>>
    ELSE The({IF FILES[n].kind = "file" THEN PutFile(f, FILES[n])
              ELSE IF FILES[n].kind = "dir"
              THEN PutEntries(f, FILES[n], Len(FILES[n].entries))
              ELSE f :
              f \in {CollectFiles(FILES, n - 1)}})

\* sorted(files.items(), key=lambda x: x[0]): the keys in that order
SortedStems(files) == SelectSeq(StemOrder, LAMBDA k : k \in DOMAIN files)

\* the loop of lines 157-159 over the first n items; enumerate counts from 0.
\* UploadPage(...) also hashes the two files, which is left out here.
RECURSIVE BuildPages(_, _, _)
BuildPages(files, stems, n) ==
    IF n = 0 THEN <<>>
    ELSE The({IF files[stems[n]][1] # NonePath
              THEN Append(pages, [image |-> files[stems[n]][1],
                                  page_xml |-> files[stems[n]][2],
                                  page_nr |-> n - 1])
              ELSE pages :
              pages \in {BuildPages(files, stems, n - 1)}})

NotRun == [FILES |-> <<>>, files |-> <<>>, pages |-> <<>>, ran |-> FALSE]

----------------------------------------------------------------------------
(* The state machine *)

Idle == [pc |-> "idle"]

\* the with-block: where control is (not yet in it, in it, past it), whether
\* it was left by an exception, and how many logout requests were sent for
\* its session
NotEntered == [pc |-> "out", raised |-> FALSE, logouts |-> 0]

\* the requests of out that go to auth/logout
LogoutRequests(out) ==
    Len(SelectSeq(out, LAMBDA q : q.path = <<"auth", "logout">>))

NoCall ==
    [op |-> "none", force |-> FALSE, pre |-> NoSession, at |-> 0,
     raised |-> FALSE, error |-> "", value |-> None, resp |-> NoResponse]

\* a finished call: pre and at are the session and the clock it started with,
\* resp the auth response it received, if it sent an auth request
Call(op, force, r, resp) ==
    [op |-> op, force |-> force, pre |-> session, at |-> now,
     raised |-> r.raised, error |-> r.error, value |-> r.value,
     resp |-> IF \E i \in 1..Len(r.out) :
                    r.out[i].path \in {<<"auth", "login">>, <<"auth", "refresh">>}
              THEN resp ELSE NoResponse]

\* the requests as logged: afterLogout is history, TRUE when the request
\* left after a successful logout of the session
Stamp(out) ==
    [i \in 1..Len(out) |->
        [method |-> out[i].method, path |-> out[i].path,
         headers |-> out[i].headers, data |-> out[i].data,
         fresh |-> out[i].fresh, reply |-> out[i].reply,
         afterLogout |-> revoked]]

Init ==
    /\ now = 0
    /\ client = "none"
    /\ session = NoSession
    /\ revoked = FALSE
    /\ last = NoCall
    /\ sent = <<>>
    /\ up = Idle
    /\ down = Idle
    /\ disk = <<>>
    /\ handles = {}
    /\ made = NotMade
    /\ cli = NotRun
    /\ block = NotEntered

\* no upload_document or download_document call is under way
Quiet ==
    /\ up.pc \in {"idle", "returned", "raised"}
    /\ down.pc \in {"idle", "returned", "raised"}

\* a call that takes several steps: last at its start, and at its end
Begin(op) ==
    [op |-> op, force |-> FALSE, pre |-> session, at |-> now,
     raised |-> FALSE, error |-> "", value |-> None, resp |-> NoResponse]
End(call, r) ==
    [call EXCEPT !.raised = r.raised, !.error = r.error, !.value = r.value]

Tick ==
    /\ now + TickHours <= MaxClock
    /\ now' = now + TickHours
    /\ UNCHANGED <<client, session, revoked, last, sent, up, down, disk, handles,
                   made, cli, block>>

\* TranskribusRestApi.__init__: the object exists only if login returns
Login ==
    /\ client = "none"
    /\ \E resp \in AuthResponses :
       \E r \in {login(now, resp)} :
             /\ last' = Call("login", FALSE, r, resp)
             /\ sent' = Stamp(r.out)
             /\ client' = IF r.raised THEN "none" ELSE "open"
             /\ session' = r.s
    /\ UNCHANGED <<now, revoked, up, down, disk, handles, made, cli, block>>

GetAuthHeader ==
    /\ client = "open" /\ Quiet
    /\ \E resp \in RefreshAnswers(session, now) :
       \E r \in {get_auth_header(session, now, 1, resp)} :
             /\ last' = Call("get_auth_header", FALSE, r, resp)
             /\ sent' = Stamp(r.out)
             /\ session' = r.s
    /\ UNCHANGED <<now, client, revoked, up, down, disk, handles, made, cli, block>>

Refresh ==
    /\ client = "open" /\ Quiet
    /\ \E force \in BOOLEAN :
       \E resp \in (IF force THEN AuthResponses ELSE RefreshAnswers(session, now)) :
       \E r \in {refresh(session, now, force, 1, resp)} :
             /\ last' = Call("refresh", force, r, resp)
             /\ sent' = Stamp(r.out)
             /\ session' = r.s
    /\ UNCHANGED <<now, client, revoked, up, down, disk, handles, made, cli, block>>

\* TranskribusRestApi.close is self.session_id.logout()
Logout ==
    /\ client = "open" /\ Quiet
    /\ \E authResp \in RefreshAnswers(session, now), resp \in PlainResponses :
       \E r \in {logout(session, now, authResp, resp)} :
             /\ last' = Call("logout", FALSE, r, authResp)
             /\ sent' = Stamp(r.out)
             /\ session' = r.s
             /\ revoked' = (revoked \/ ~r.raised)
    /\ UNCHANGED <<now, client, up, down, disk, handles, made, cli, block>>

\* Collections.list: one call through the gateway
CollectionsList ==
    /\ client = "open" /\ Quiet
    /\ \E authResp \in RefreshAnswers(session, now), resp \in PlainResponses :
       \E r \in {_get(session, now, <<"collections">>, 2, authResp, resp)} :
             /\ last' = Call("collections.list", FALSE, r, authResp)
             /\ sent' = Stamp(r.out)
             /\ session' = r.s
    /\ UNCHANGED <<now, client, revoked, up, down, disk, handles, made, cli, block>>

\* upload_document, from its call to the answer to POST uploads
UploadDocument ==
    /\ client = "open" /\ up.pc = "idle" /\ down.pc = "idle"
    /\ \E title \in Titles, pages \in PageLists, metadata \in Metadatas,
          authResp \in RefreshAnswers(session, now), resp \in StructureResponses :
       \E r \in {CreateUpload(session, now, title, pages, metadata, authResp,
                                resp)} :
             /\ up' = [pc |-> IF r.raised THEN "raised"
                               ELSE IF Len(pages) = 0 THEN "status" ELSE "pages",
                        title |-> title, pages |-> pages, metadata |-> metadata,
                        upload_id |-> IF r.raised THEN 0 ELSE r.value,
                        i |-> 1, job_id |-> 0]
             /\ last' = End(Begin("upload_document"),
                            IF r.raised THEN r ELSE Returned(None, r.s, r.out))
             /\ sent' = Stamp(r.out)
             /\ session' = r.s
             /\ handles' = {}
    /\ UNCHANGED <<now, client, revoked, down, disk, made, cli, block>>

\* one turn of "for page in pages": self.uploads.upload_page(...). The files
\* it opened stay open unless the runtime has finalised them.
UploadPagePut ==
    /\ up.pc = "pages"
    /\ \E authResp \in RefreshAnswers(session, now), resp \in PlainResponses :
       \E page \in {LoopOrder(up.pages)[up.i]} :
       \E r \in {upload_page(session, now, up.upload_id, page.image,
                              page.page_xml, 2, authResp, resp)} :
       \E left \in LeftOpen(PayloadHandles(page.image, page.page_xml), r.raised) :
             /\ up' = [up EXCEPT
                          !.pc = IF r.raised THEN "raised"
                                 ELSE IF up.i = Len(up.pages) THEN "status"
                                 ELSE "pages",
                          !.i = up.i + 1]
             /\ last' = IF r.raised THEN End(last, r) ELSE last
             /\ sent' = sent \o Stamp(r.out)
             /\ session' = r.s
             /\ handles' = handles \cup left
    /\ UNCHANGED <<now, client, revoked, down, disk, made, cli, block>>

\* job_id = self.uploads.get_status(upload_id)["jobId"]
UploadGetStatus ==
    /\ up.pc = "status"
    /\ \E authResp \in RefreshAnswers(session, now), resp \in StatusResponses :
       \E r \in {Subscript(get_status(session, now, up.upload_id, 2, authResp,
                                        resp),
                             "jobId")} :
             /\ up' = [up EXCEPT !.pc = IF r.raised THEN "raised" ELSE "job",
                                  !.job_id = IF r.raised THEN 0 ELSE r.value]
             /\ last' = IF r.raised THEN End(last, r) ELSE last
             /\ sent' = sent \o Stamp(r.out)
             /\ session' = r.s
    /\ UNCHANGED <<now, client, revoked, down, disk, handles, made, cli, block>>

\* return self.job.get_job_by_id(job_id)["docId"]
UploadGetJob ==
    /\ up.pc = "job"
    /\ \E authResp \in RefreshAnswers(session, now), resp \in JobResponses :
       \E r \in {Subscript(get_job_by_id(session, now, up.job_id, 2, authResp,
                                           resp),
                             "docId")} :
             /\ up' = [up EXCEPT !.pc = IF r.raised THEN "raised" ELSE "returned"]
             /\ last' = End(last, r)
             /\ sent' = sent \o Stamp(r.out)
             /\ session' = r.s
    /\ UNCHANGED <<now, client, revoked, down, disk, handles, made, cli, block>>

\* upload_document has returned or raised: its frame is gone, and what was
\* recorded of the call with it
UploadEnds ==
    /\ up.pc \in {"returned", "raised"}
    /\ up' = Idle
    /\ last' = NoCall
    /\ sent' = <<>>
    /\ handles' = {}
    /\ UNCHANGED <<now, client, session, revoked, down, disk, made, cli, block>>

\* download_document, from its call to the manifest's answer; the target
\* directory is empty when the call starts
DownloadDocument ==
    /\ client = "open" /\ up.pc = "idle" /\ down.pc = "idle"
    /\ \E authResp \in RefreshAnswers(session, now), resp \in MetsResponses :
       \E r \in {get_mets(session, now, CollectionId, DocumentId, 2, authResp, resp)} :
             /\ down' = [pc |-> IF r.raised THEN "raised" ELSE "pages",
                          mets |-> IF r.raised THEN <<>> ELSE r.value,
                          pages |-> <<>>, i |-> 1]
             /\ last' = End(Begin("download_document"),
                            IF r.raised THEN r ELSE Returned(None, r.s, r.out))
             /\ sent' = Stamp(r.out)
             /\ session' = r.s
             /\ disk' = <<>>
    /\ UNCHANGED <<now, client, revoked, up, handles, made, cli, block>>

\* pages = self.collections.get_pages_from_pages_str(...), the rewrite of the
\* pointers and the write of mets.xml
DownloadGetPages ==
    /\ down.pc = "pages"
    /\ \E authResp \in RefreshAnswers(session, now), resp \in PagesResponses :
       \E r \in {FetchPagesAndWriteMets(session, now, down.mets, disk, authResp,
                                          resp)} :
             /\ down' = [down EXCEPT
                            !.pc = IF r.raised THEN "raised"
                                   ELSE IF Len(r.value) = 0 THEN "returned"
                                   ELSE "transcripts",
                            !.pages = r.value]
             /\ last' = IF r.raised THEN End(last, r) ELSE last
             /\ sent' = sent \o Stamp(r.out)
             /\ session' = r.s
             /\ disk' = r.dir
    /\ UNCHANGED <<now, client, revoked, up, handles, made, cli, block>>

\* one turn of "for page in pages"
DownloadGetTranscript ==
    /\ down.pc = "transcripts"
    /\ \E authResp \in RefreshAnswers(session, now),
          resp \in TranscriptResponses(down.pages[down.i].pageNr) :
       \E r \in {FetchAndWriteTranscript(session, now, down.pages[down.i], disk,
                                           authResp, resp)} :
             /\ down' = [down EXCEPT
                            !.pc = IF r.raised THEN "raised"
                                   ELSE IF down.i = Len(down.pages) THEN "returned"
                                   ELSE "transcripts",
                            !.i = down.i + 1]
             /\ last' = IF r.raised THEN End(last, r) ELSE last
             /\ sent' = sent \o Stamp(r.out)
             /\ session' = r.s
             /\ disk' = r.dir
    /\ UNCHANGED <<now, client, revoked, up, handles, made, cli, block>>

\* download_document has returned or raised: its frame is gone, and what was
\* recorded of the call with it
DownloadEnds ==
    /\ down.pc \in {"returned", "raised"}
    /\ down' = Idle
    /\ last' = NoCall
    /\ sent' = <<>>
    /\ UNCHANGED <<now, client, session, revoked, up, disk, handles, made, cli, block>>

\* page = UploadPage(image, page_xml, page_nr, image_md5, page_xml_md5)
NewUploadPage ==
    /\ \E image \in ImagePaths, page_xml \in PageXmlPaths, page_nr \in 1..MaxPages,
          image_md5 \in ImageChecksums, page_xml_md5 \in PageXmlChecksums :
       \E r \in {UploadPage(image, page_xml, page_nr, image_md5, page_xml_md5)} :
             made' = [op |-> "UploadPage",
                      args |-> [image |-> image, page_xml |-> page_xml,
                                page_nr |-> page_nr, image_md5 |-> image_md5,
                                page_xml_md5 |-> page_xml_md5],
                      raised |-> r.raised, error |-> r.error, obj |-> r.obj,
                      reads |-> r.reads, setattr |-> ""]
    /\ UNCHANGED <<now, client, session, revoked, last, sent, up, down, disk,
                   handles, cli, block>>

\* page.field = value on the page made last
SetPageField ==
    /\ made.op = "UploadPage" /\ ~made.raised
    /\ \E field \in UploadPageFields :
       \E r \in {Setattr(made.obj, field, "x")} :
             made' = [made EXCEPT !.obj = r.obj, !.setattr = r.error]
    /\ UNCHANGED <<now, client, session, revoked, last, sent, up, down, disk,
                   handles, cli, block>>

\* main with subcommand upload-document, up to the pages it hands to
\* upload_document; the command runs once
CliBuildPages ==
    /\ ~cli.ran
    /\ \E FILES \in ArgLists :
       \E files \in {CollectFiles(FILES, Len(FILES))} :
             cli' = [FILES |-> FILES, files |-> files,
                     pages |-> BuildPages(files, SortedStems(files),
                                          Len(SortedStems(files))),
                     ran |-> TRUE]
    /\ UNCHANGED <<now, client, session, revoked, last, sent, up, down, disk,
                   handles, made, block>>

\* with transkribus_rest_api(username, password) as api: the generator runs
\* up to its yield; if the login raises the block is not entered
WithEnter ==
    /\ block.pc = "out" /\ client = "none"
    /\ \E resp \in AuthResponses :
       \E r \in {login(now, resp)} :
             /\ last' = Call("login", FALSE, r, resp)
             /\ sent' = Stamp(r.out)
             /\ client' = IF r.raised THEN "none" ELSE "open"
             /\ session' = r.s
             /\ block' = [block EXCEPT !.pc = IF r.raised THEN "out" ELSE "in"]
    /\ UNCHANGED <<now, revoked, up, down, disk, handles, made, cli>>

\* a statement of the block that makes one call through the gateway. When it
\* raises, the exception is thrown into the generator at its yield, which
\* has no try around it: the generator ends there and api.close() is not run.
WithCall ==
    /\ block.pc = "in" /\ up.pc = "idle" /\ down.pc = "idle"
    /\ \E authResp \in RefreshAnswers(session, now), resp \in PlainResponses :
       \E r \in {_get(session, now, <<"collections">>, 2, authResp, resp)} :
             /\ last' = Call("collections.list", FALSE, r, authResp)
             /\ sent' = Stamp(r.out)
             /\ session' = r.s
             /\ block' = [block EXCEPT !.pc = IF r.raised THEN "left" ELSE "in",
                                       !.raised = r.raised]
             /\ client' = IF r.raised THEN "none" ELSE "open"
    /\ UNCHANGED <<now, revoked, up, down, disk, handles, made, cli>>

\* the upload_document call of the block has raised: the exception leaves
\* the block through the generator's yield, and api.close() is not run
WithRaises ==
    /\ block.pc = "in" /\ up.pc = "raised"
    /\ block' = [block EXCEPT !.pc = "left", !.raised = TRUE]
    /\ client' = "none"
    /\ up' = Idle
    /\ handles' = {}
    /\ UNCHANGED <<now, session, revoked, last, sent, down, disk, made, cli>>

\* the block ends normally: the generator resumes after its yield and runs
\* api.close(), which is self.session_id.logout()
WithExit ==
    /\ block.pc = "in"
    /\ up.pc \in {"idle", "returned"} /\ down.pc = "idle"
    /\ \E authResp \in RefreshAnswers(session, now), resp \in PlainResponses :
       \E r \in {logout(session, now, authResp, resp)} :
             /\ last' = Call("logout", FALSE, r, authResp)
             /\ sent' = Stamp(r.out)
             /\ session' = r.s
             /\ revoked' = (revoked \/ ~r.raised)
             /\ block' = [block EXCEPT !.pc = "left",
                                       !.logouts = LogoutRequests(r.out)]
    /\ client' = "none"
    /\ up' = Idle
    /\ handles' = {}
    /\ UNCHANGED <<now, down, disk, made, cli>>

Next ==
    \/ Tick
    \/ Login
    \/ GetAuthHeader
    \/ Refresh
    \/ Logout
    \/ CollectionsList

Spec == Init /\ [][Next]_vars

\* the client used for uploads only
NextUpload ==
    \/ Tick
    \/ Login
    \/ UploadDocument
    \/ UploadPagePut
    \/ UploadGetStatus
    \/ UploadGetJob
    \/ UploadEnds

SpecUpload == Init /\ [][NextUpload]_vars

\* the client used for downloads only
NextDownload ==
    \/ Tick
    \/ Login
    \/ DownloadDocument
    \/ DownloadGetPages
    \/ DownloadGetTranscript
    \/ DownloadEnds

SpecDownload == Init /\ [][NextDownload]_vars

\* a caller that makes UploadPage objects
NextTypes ==
    \/ NewUploadPage
    \/ SetPageField

SpecTypes == Init /\ [][NextTypes]_vars

\* the upload-document command run on some FILES
NextCli ==
    \/ CliBuildPages

SpecCli == Init /\ [][NextCli]_vars

\* a with-block of the context manager whose statements are gateway calls
\* and an upload_document call, as in main
NextWith ==
    \/ Tick
    \/ WithEnter
    \/ WithCall
    \/ UploadDocument
    \/ UploadPagePut
    \/ UploadGetStatus
    \/ UploadGetJob
    \/ WithRaises
    \/ WithExit

SpecWith == Init /\ [][NextWith]_vars

----------------------------------------------------------------------------
(* Properties of the session, checked under Spec. *)

\* the auth response of the last call delivers a session id
Delivers(resp) ==
    resp.ok /\ resp.body.wellformed /\ Len(resp.body.sessionIds) > 0

\* C1: a get_auth_header call made at or past the expiry (now >= expires) of
\* a session that was not logged out sends exactly one request, to
\* auth/refresh, before it ends; when that request is answered with a session
\* id the call returns, and the Cookie header it returns carries that id.
C1_GetAuthHeaderRefreshesOnce ==
    (last.op = "get_auth_header" /\ ~revoked /\ last.at >= last.pre.expires) =>
        /\ Len(sent) = 1
        /\ sent[1].path = <<"auth", "refresh">>
        /\ Delivers(last.resp) =>
             /\ ~last.raised
             /\ last.value = Cookie(last.resp.body.sessionIds[1])

\* C2: on a session that was not logged out, refresh(force=True) in any
\* state and refresh() past the expiry send one request to auth/refresh
\* carrying the session's current id; when it is answered with a session id
\* the call returns True, the session holds that id and expires 12 hours
\* after the call.
C2_RefreshCallsEndpoint ==
    (last.op = "refresh" /\ ~revoked /\ (last.force \/ last.at > last.pre.expires)) =>
        /\ Len(sent) = 1
        /\ sent[1].path = <<"auth", "refresh">>
        /\ sent[1].headers = Cookie(last.pre.session_id)
        /\ Delivers(last.resp) =>
             /\ ~last.raised
             /\ last.value = TRUE
             /\ session = [session_id |-> last.resp.body.sessionIds[1],
                           expires |-> last.at + TwelveHours]

\* C3: refresh() without force on a session whose expiry has not passed
\* sends nothing, returns False and leaves session id and expiry as they were.
C3_RefreshNoOpWhenFresh ==
    (last.op = "refresh" /\ ~last.force /\ last.at <= last.pre.expires) =>
        /\ sent = <<>>
        /\ ~last.raised
        /\ last.value = FALSE
        /\ session = last.pre

C3_Witness ==
    /\ last.op = "refresh" /\ ~last.force
    /\ last.at <= last.pre.expires
    /\ last.pre.session_id \in Tokens

\* C4: after a logout that returned, the session id is empty, the expiry is
\* the clock value of the logout, and is_expired() is true from then on,
\* also while the clock still shows that value.
C4_LogoutLeavesExpired ==
    (last.op = "logout" /\ ~last.raised) =>
        /\ session.session_id = ""
        /\ session.expires = last.at
        /\ is_expired(session, now)

\* C5: once a logout has returned, the session id stays empty and no request
\* leaves with this session's Cookie header.
C5_RevokedIsFinal ==
    revoked =>
        /\ session.session_id = ""
        /\ \A i \in 1..Len(sent) : ~sent[i].afterLogout

\* C6: every request the gateway sends for a session that was not logged out
\* leaves while now < expires holds for the session whose id it carries.
C6_GatewayOnlyBeforeExpiry ==
    \A i \in 1..Len(sent) :
        (~IsAuthPath(sent[i].path) /\ ~sent[i].afterLogout) =>
            sent[i].fresh

\* what the service answered to the last login: a rejection, a body that
\* does not parse, or a body without a session id
LoginRefused == last.op = "login" /\ ~Delivers(last.resp)

C8_LoginExpiryTwelveHours ==
    (last.op = "login" /\ Delivers(last.resp)) =>
        /\ ~last.raised /\ client = "open"
        /\ session = [session_id |-> last.resp.body.sessionIds[1],
                      expires |-> last.at + TwelveHours]

C8_Witness ==
    /\ last.op = "login" /\ Delivers(last.resp)
    /\ last.resp.body.lifetime # TwelveHours
    /\ last.at > 0 /\ client = "open"

\* C12: a call through the gateway (here the GET of Collections.list) sends
\* exactly one request, carrying the header get_auth_header gives for the
\* session; when the answer is not 2xx the call raises RequestError, and no
\* second request is sent.
C12_GatewayOneRequestTypedError ==
    last.op = "collections.list" =>
        /\ Len(sent) = 1
        /\ sent[1].path = <<"collections">>
        /\ sent[1].headers = Cookie(session.session_id)
        /\ ~sent[1].reply.ok => (last.raised /\ last.error = "RequestError")

\* C12, the part that does not depend on the error's name: a gateway call on
\* a session that was not logged out sends a request
C12_GatewaySendsARequest ==
    (last.op = "collections.list" /\ ~revoked) => Len(sent) = 1

\* C22: every call of get_auth_header, refresh and logout (close is logout)
\* ends after a bounded number of nested calls between get_auth_header and
\* refresh: none nests them until the interpreter's recursion limit, however
\* large, stops it with RecursionError.
C22_AuthCallsTerminate ==
    last.op \in {"get_auth_header", "refresh", "logout"} =>
        ~(last.raised /\ last.error = "RecursionError")

\* C24: a call on the session that raises (refresh or logout answered with a
\* non-2xx status, an answer that does not parse, a refresh answer without a
\* session id, or any other failure) leaves session id and expiry as they
\* were before it; and when a call has changed either of the two, it was a
\* refresh that returned True, which set both from its answer and its clock,
\* or a logout that returned, which cleared the id and set the expiry to its
\* clock.
C24_FailedCallLeavesSession ==
    last.op \in {"refresh", "logout", "get_auth_header", "collections.list"} =>
        /\ last.raised => session = last.pre
        /\ session # last.pre =>
              /\ ~last.raised
              /\ \/ /\ last.op = "refresh" /\ last.value = TRUE
                    /\ Delivers(last.resp)
                    /\ session = [session_id |-> last.resp.body.sessionIds[1],
                                  expires |-> last.at + TwelveHours]
                 \/ /\ last.op = "logout"
                    /\ session = [session_id |-> "", expires |-> last.at]

\* a forced refresh answered 2xx without a session id: the request was sent,
\* the call raised, the session is the one logged in with
C24_Witness ==
    /\ last.op = "refresh" /\ last.force
    /\ Len(sent) = 1 /\ sent[1].reply.ok /\ sent[1].reply.body.wellformed
    /\ last.raised /\ last.error = "IndexError"
    /\ session = last.pre /\ session.session_id \in Tokens

----------------------------------------------------------------------------
(* Properties of upload_document, checked under SpecUpload. *)

\* the page number of the page whose image is img
NrOfImage(img) == (CHOOSE p \in UploadPages : p.image = img).page_nr

\* the requests of a returned upload_document over n pages: one POST uploads,
\* n PUTs to the upload, one GET of the upload's status, one GET of the job,
\* and nothing else; the result is the docId of the job's answer
UploadShape(n) ==
    /\ Len(sent) = n + 3
    /\ sent[1].method = "POST" /\ sent[1].path = <<"uploads">>
    /\ \A i \in 1..n :
         /\ sent[i + 1].method = "PUT"
         /\ sent[i + 1].path = <<"uploads", up.upload_id>>
    /\ sent[n + 2].method = "GET"
    /\ sent[n + 2].path = <<"uploads", up.upload_id>>
    /\ sent[n + 3].method = "GET"
    /\ sent[n + 3].path = <<"jobs", sent[n + 2].reply.body.dict.jobId>>
    /\ last.value = sent[n + 3].reply.body.dict.docId

PutsSent == SelectSeq(sent, LAMBDA q : q.method = "PUT")

\* C16: at every point of an upload_document call the PUTs sent so far are
\* the pushes of the first pages of the pages argument, in the argument's
\* order and one per page, directly after the POST: the i-th PUT carries the
\* i-th page's image as part img and its markup, if it has one, as part xml;
\* a PUT is sent only after the one before it was answered 2xx; and once the
\* loop is over there are as many PUTs as pages.
C16_PagesPushedInArgumentOrder ==
    up.pc # "idle" =>
        /\ Len(PutsSent) <= Len(up.pages)
        /\ up.pc \in {"status", "job", "returned"} => Len(PutsSent) = Len(up.pages)
        /\ \A i \in 1..Len(PutsSent) :
             /\ PutsSent[i] = sent[i + 1]
             /\ PutsSent[i].path = <<"uploads", up.upload_id>>
             /\ PutsSent[i].data.img = up.pages[i].image
             /\ IF up.pages[i].page_xml = None
                THEN DOMAIN PutsSent[i].data = {"img"}
                ELSE /\ DOMAIN PutsSent[i].data = {"img", "xml"}
                     /\ PutsSent[i].data.xml = up.pages[i].page_xml
             /\ i < Len(PutsSent) => PutsSent[i].reply.ok

\* three pages pushed, not in page-number order, the second with markup
C16_Witness ==
    /\ up.pc = "status"
    /\ Len(up.pages) = 3 /\ Len(PutsSent) = 3
    /\ up.pages[1].page_nr > up.pages[2].page_nr
    /\ up.pages[2].page_xml # None
    /\ "xml" \in DOMAIN sent[3].data

\* the answer to the structure-creation POST was 2xx but does not parse, or
\* parses and holds no upload id
StructureUnusable ==
    /\ up.pc # "idle" /\ Len(sent) >= 1
    /\ sent[1].method = "POST" /\ sent[1].reply.ok
    /\ \/ ~sent[1].reply.body.wellformed
       \/ sent[1].reply.body.uploadIds = <<>>

\* the i-th request is a page push that was answered with a non-2xx status
PutRefused(i) ==
    /\ up.pc # "idle" /\ i \in 1..Len(sent)
    /\ sent[i].method = "PUT" /\ ~sent[i].reply.ok

C20_PayloadPageNumbersDistinct ==
    \A n \in 1..Len(sent) :
        sent[n].path = <<"uploads">> =>
            \A a, b \in 1..Len(sent[n].data.json.pageList.pages) :
                a # b => sent[n].data.json.pageList.pages[a].pageNr #
                         sent[n].data.json.pageList.pages[b].pageNr

\* C21: in every structure-creation payload upload_document sends, the key
\* title of the metadata map md holds the title argument, whatever the
\* metadata argument holds, a title key of its own included.
C21_TitleNotOverridden ==
    \A n \in 1..Len(sent) :
        sent[n].path = <<"uploads">> => sent[n].data.json.md.title = up.title

\* C13: whenever upload_page has been left, by return or by an exception,
\* every payload file it opened is closed: between two page pushes, after
\* the last one, and when upload_document has returned or raised, no payload
\* file handle is open.
C13_PayloadHandlesClosed ==
    up.pc \in {"pages", "status", "job", "returned", "raised"} => handles = {}

\* C13 for the failing PUT alone: when the page push raised, the files it
\* opened are closed by the time the caller sees the error
C13_ClosedWhenPutRaised ==
    (up.pc = "raised" /\ Len(sent) >= 2 /\ sent[Len(sent)].method = "PUT") =>
        handles = {}

----------------------------------------------------------------------------
(* Properties of download_document, checked under SpecDownload *)

\* the transcript GET of the call's i-th page is the (2 + i)-th request
TranscriptRequest(i) == sent[2 + i]

\* download_document has returned and the manifest it fetched had as many
\* PAGEXML pointers as the page list has pages
DownloadedAligned ==
    /\ down.pc = "returned"
    /\ Len(PageXmlPointers(down.mets, 1)) = Len(down.pages)

\* C10: when the manifest has exactly N PAGEXML pointers for the N pages and
\* every request succeeds, download_document leaves exactly N + 1 files in the
\* target directory: mets.xml and, for each page, a file named by the page's
\* first transcript file name that holds the transcript fetched for that page.
C10_DownloadWritesNPlusOneFiles ==
    DownloadedAligned =>
        /\ Cardinality(DOMAIN disk) = Len(down.pages) + 1
        /\ "mets.xml" \in DOMAIN disk
        /\ \A i \in 1..Len(down.pages) :
              /\ TranscriptName(down.pages[i]).value \in DOMAIN disk
              /\ disk[TranscriptName(down.pages[i]).value] =
                    TranscriptFile(TranscriptRequest(i).reply.body.root)

\* the page list the call has read: the JSON of the answer to its second
\* request, once that answer is there and is a list
PageListRead ==
    /\ down.pc \in {"transcripts", "returned", "raised"}
    /\ Len(sent) >= 2
    /\ sent[2].reply.ok
    /\ sent[2].reply.body.json
PageListOfCall == sent[2].reply.body.dict

\* the manifest and the page list are both read and the manifest's PAGEXML
\* group has more or fewer pointers than the list has pages
CountsDiffer ==
    /\ PageListRead
    /\ Len(PageXmlPointers(down.mets, 1)) # Len(PageListOfCall)

\* C11: when the number of PAGEXML pointers differs from the number of page
\* entries, download_document fails with DownloadError and the target
\* directory stays empty (no mets.xml, no transcript).
C11_MismatchFailsWithDownloadError ==
    CountsDiffer =>
        /\ DOMAIN disk = {}
        /\ down.pc \in {"returned", "raised"} =>
              /\ last.raised
              /\ last.error = "DownloadError"

\* C11, the half the code does not keep at all: with fewer pointers than pages
\* no file is written
C11_FewerPointersWriteNothing ==
    (PageListRead /\ Len(PageXmlPointers(down.mets, 1)) < Len(PageListOfCall)) =>
        DOMAIN disk = {}

\* the call has just written mets.xml: the page list's GET is the last
\* request it has sent, and the pointers were rewritten without an error
MetsWritten ==
    /\ down.pc \in {"transcripts", "returned"}
    /\ Len(sent) = 2

\* the manifest as the service sent it
MetsFetched == sent[1].reply.body.root

\* how many PAGEXML pointers the manifest has up to its k-th pointer
PointerIndex(k) == Cardinality({j \in 1..k : MetsFetched[j].grp = "PAGEXML"})

TranscriptGetFailed ==
    /\ down.pc = "raised" /\ down.i >= 2
    /\ last.raised /\ last.error \in {"HTTPError", "RecursionError"}

\* the page whose transcript GET failed is the k-th of the page list
FailedAt == down.i - 1

\* C19: download_document sends the manifest's GET first and the page list's
\* GET second and has written nothing until both are answered; mets.xml is
\* there before any transcript GET is sent; the transcript GETs follow the
\* page list's order; and when the GET for the k-th page fails, the call
\* raises, no further request is sent, and the target directory holds exactly
\* mets.xml (the manifest) and the transcripts of pages 1..k-1.
C19_DownloadOrderAndPartialFailure ==
    down.pc # "idle" =>
        /\ Len(sent) >= 1 =>
              sent[1].path = <<"collections", CollectionId, DocumentId, "mets">>
        /\ Len(sent) >= 2 =>
              sent[2].path = <<"collections", CollectionId, DocumentId, "pages">>
        /\ Len(sent) < 2 => DOMAIN disk = {}
        /\ Len(sent) >= 3 => "mets.xml" \in DOMAIN disk
        /\ \A n \in 3..Len(sent) :
              sent[n].path = <<"collections", CollectionId, DocumentId,
                               down.pages[n - 2].pageNr, "text">>
        /\ TranscriptGetFailed =>
              /\ Len(sent) <= FailedAt + 2
              /\ Cardinality(DOMAIN disk) = FailedAt
              /\ "mets.xml" \in DOMAIN disk
              /\ disk["mets.xml"].standalone = "absent"
              /\ \A n \in 1..(FailedAt - 1) :
                    /\ TranscriptName(down.pages[n]).value \in DOMAIN disk
                    /\ disk[TranscriptName(down.pages[n]).value] =
                          TranscriptFile(TranscriptRequest(n).reply.body.root)

----------------------------------------------------------------------------
(* Properties of UploadPage, checked under SpecTypes. *)

\* C14: UploadPage(...) reads no file whose checksum the caller supplied and
\* stores that checksum as given; a checksum not supplied is the MD5 digest of
\* the file's bytes (None for the markup checksum when there is no markup
\* file); the construction fails only when a file it has to hash is missing;
\* and an assignment to a field of the object raises FrozenInstanceError and
\* leaves every field as constructed.
C14_UploadPageChecksums ==
    made.op = "UploadPage" =>
        /\ made.args.image_md5 # None => made.args.image \notin made.reads
        /\ made.args.page_xml_md5 # None => made.args.page_xml \notin made.reads
        /\ made.raised =>
              /\ made.error = "FileNotFoundError"
              /\ \/ made.args.image_md5 = None /\ made.args.image = "gone.jpg"
                 \/ made.args.page_xml_md5 = None /\ made.args.page_xml = "gone.xml"
        /\ ~made.raised =>
              /\ made.obj.image = made.args.image
              /\ made.obj.page_xml = made.args.page_xml
              /\ made.obj.page_nr = made.args.page_nr
              /\ made.obj.image_md5 =
                    (IF made.args.image_md5 # None THEN made.args.image_md5
                     ELSE md5(FileBytes[made.args.image]))
              /\ made.obj.page_xml_md5 =
                    (IF made.args.page_xml_md5 # None THEN made.args.page_xml_md5
                     ELSE IF made.args.page_xml = None THEN None
                     ELSE md5(FileBytes[made.args.page_xml]))
        /\ made.setattr \in {"", "FrozenInstanceError"}

\* an object made with the image's checksum supplied (the image file does not
\* even exist) and the markup's checksum hashed, then assigned to in vain
C14_Witness ==
    /\ made.op = "UploadPage" /\ ~made.raised
    /\ made.args.image = "gone.jpg" /\ made.args.image_md5 = "x"
    /\ made.args.page_xml = "a.xml" /\ made.args.page_xml_md5 = None
    /\ made.obj.page_xml_md5 = md5("X")
    /\ made.reads = {"a.xml"}
    /\ made.setattr = "FrozenInstanceError"

----------------------------------------------------------------------------
(* Properties of the upload-document command, checked under SpecCli. *)

\* the files among the inputs: given as arguments or found in a directory
\* given as argument
InputFiles(FILES) ==
    {FILES[n] : n \in {m \in 1..Len(FILES) : FILES[m].kind = "file"}} \cup
    UNION {{FILES[n].entries[e] : e \in 1..Len(FILES[n].entries)} :
           n \in {m \in 1..Len(FILES) : FILES[m].kind = "dir"}}

\* the place of a stem in sorted order
StemRank(stem) == CHOOSE r \in 1..Len(StemOrder) : StemOrder[r] = stem

\* C15: for every image file among the inputs that has a .xml file of the
\* same stem among the inputs, whether given directly or found in a directory
\* argument, the pages built hold a page of that stem that carries a .xml
\* input file of that stem; and the pages are in sorted stem order with
\* increasing page numbers.
C15_CliPairsImagesWithMarkup ==
    cli.ran =>
        /\ \A img \in InputFiles(cli.FILES) :
              (/\ img.suffix \in ImageSuffixes
               /\ \E x \in InputFiles(cli.FILES) :
                     x.suffix = ".xml" /\ x.stem = img.stem)
              => \E i \in 1..Len(cli.pages) :
                    /\ cli.pages[i].image.stem = img.stem
                    /\ cli.pages[i].page_xml \in InputFiles(cli.FILES)
                    /\ cli.pages[i].page_xml.suffix = ".xml"
                    /\ cli.pages[i].page_xml.stem = img.stem
        /\ \A i, j \in 1..Len(cli.pages) :
              i < j => /\ StemRank(cli.pages[i].image.stem) <
                             StemRank(cli.pages[j].image.stem)
                       /\ cli.pages[i].page_nr < cli.pages[j].page_nr

\* C20 for the command alone: the pages the upload-document command builds
\* have pairwise distinct page numbers
C20_CliPageNumbersDistinct ==
    \A a, b \in 1..Len(cli.pages) :
        a # b => cli.pages[a].page_nr # cli.pages[b].page_nr

----------------------------------------------------------------------------
(* Properties of the context manager, checked under SpecWith. *)

\* C23: when the with-block has been left, by its normal end or by an
\* exception of one of its statements, exactly one logout request has been
\* sent for the session.
C23_LoggedOutOnEveryExit ==
    block.pc = "left" => block.logouts = 1

\* C23 for the exit by an exception alone, with the session not expired: a
\* block left by an exception while now <= expires has sent its logout
C23_LoggedOutWhenBlockRaises ==
    (block.pc = "left" /\ block.raised /\ ~is_expired(session, now)) =>
        block.logouts = 1

====
